---- MODULE Spec2Model ----
(***************************************************************************)
(* A model of the PLONK verifier (Proof::verify and its helpers) and of    *)
(* the coefficient-form Polynomial arithmetic.                             *)
(*                                                                         *)
(* Scalars are the elements of a prime field; the BLS12-381 scalar field   *)
(* is scaled down to F_P.  A G1 / G2 point is represented by its discrete  *)
(* logarithm with respect to the group generator (the groups have prime    *)
(* order P), and a pairing value by its exponent, so that                  *)
(* pairing(a*G, b*H) = (a*b)*e(G,H).                                       *)
(***************************************************************************)
EXTENDS Integers, Sequences, FiniteSets, TLC

\* The scalar field modulus (scaled down from the BLS12-381 scalar field).
P == 17

\* ---- bounds of the model ----
\* circuit sizes 1..MaxN are tried, plus one size beyond the field's 2-adicity
MaxN == 4
\* public-input vectors have at most MaxPubLen scalars
MaxPubLen == 4
\* initial transcript states 0..MaxSeed
MaxSeed == 2

Scalars == 0..(P - 1)

\* ------------------------------------------------------------------------
\* Scalar field arithmetic (bls12_381::Scalar)
\* ------------------------------------------------------------------------
FAdd(a, b) == (a + b) % P
FSub(a, b) == (a + P - b) % P
FMul(a, b) == (a * b) % P
FNeg(a) == (P - a) % P

RECURSIVE FPow(_, _)
FPow(a, e) == IF e = 0 THEN 1 ELSE FMul(a, FPow(a, e - 1))

\* Scalar::invert returns a CtOption: none for zero.
None == [some |-> FALSE, val |-> 0]
Some(x) == [some |-> TRUE, val |-> x]
Invert(a) == IF a = 0 THEN None ELSE Some(FPow(a, P - 2))

\* permutation constants
K1 == 7
K2 == 13

\* ------------------------------------------------------------------------
\* Groups and pairing
\* ------------------------------------------------------------------------
G1Add(p, q) == FAdd(p, q)
G1Sub(p, q) == FSub(p, q)
G1Mul(p, s) == FMul(p, s)
pairing(p, q) == FMul(p, q)

\* util::multiscalar_mul: the pairwise products
multiscalar_mul(scalars, points) ==
    [i \in 1..Len(points) |-> G1Mul(points[i], scalars[i])]

\* util::sum_points: the projective sum
RECURSIVE sum_points(_)
sum_points(points) ==
    IF points = <<>> THEN 0
    ELSE G1Add(Head(points), sum_points(Tail(points)))

\* ------------------------------------------------------------------------
\* Polynomial (coefficient form): coeffs[i + 1] is the coefficient of x^i
\* ------------------------------------------------------------------------
Last(s) == s[Len(s)]
Front(s) == SubSeq(s, 1, Len(s) - 1)

RECURSIVE truncate_leading_zeros(_)
truncate_leading_zeros(coeffs) ==
    IF coeffs # <<>> /\ Last(coeffs) = 0
    THEN truncate_leading_zeros(Front(coeffs))
    ELSE coeffs

from_coefficients_vec(coeffs) == truncate_leading_zeros(coeffs)

is_zero(coeffs) == coeffs = <<>> \/ \A i \in 1..Len(coeffs) : coeffs[i] = 0

\* util::powers_of(point, n)[i] = point^i, summed against the coefficients
RECURSIVE SumEvals(_, _, _)
SumEvals(coeffs, point, i) ==
    IF i > Len(coeffs) THEN 0
    ELSE FAdd(FMul(FPow(point, i - 1), coeffs[i]), SumEvals(coeffs, point, i + 1))

evaluate(coeffs, point) ==
    IF is_zero(coeffs) THEN 0 ELSE SumEvals(coeffs, point, 1)

\* Polynomial::degree asserts that a polynomial that is not zero ends in a
\* nonzero coefficient; the assertion failing is a panic.
degree_panics(coeffs) == ~is_zero(coeffs) /\ Last(coeffs) = 0

degree(coeffs) == IF is_zero(coeffs) THEN 0 ELSE Len(coeffs) - 1

\* the outcome of an operation: a polynomial, or a panic
Ok(coeffs) == [panic |-> FALSE, coeffs |-> coeffs]
Panicked == [panic |-> TRUE, coeffs |-> <<>>]

\* for (a, b) in x.iter_mut().zip(&y) { *a += b }   (and -=, += f * b)
ZipAdd(x, y) == [i \in 1..Len(x) |-> IF i <= Len(y) THEN FAdd(x[i], y[i]) ELSE x[i]]
ZipSub(x, y) == [i \in 1..Len(x) |-> IF i <= Len(y) THEN FSub(x[i], y[i]) ELSE x[i]]
ZipAddScaled(x, f, y) ==
    [i \in 1..Len(x) |-> IF i <= Len(y) THEN FAdd(x[i], FMul(f, y[i])) ELSE x[i]]

\* Vec::resize(len, Scalar::zero())
Resize(x, len) == [i \in 1..len |-> IF i <= Len(x) THEN x[i] ELSE 0]

NegCoeffs(x) == [i \in 1..Len(x) |-> FNeg(x[i])]

\* a faulty variant: &self + &other without the final truncate_leading_zeros
add_ref_untruncated(self, other) ==
    IF is_zero(self) THEN Ok(other)
    ELSE IF is_zero(other) THEN Ok(self)
    ELSE IF degree_panics(self) \/ degree_panics(other) THEN Panicked
    ELSE IF degree(self) >= degree(other) THEN Ok(ZipAdd(self, other))
    ELSE Ok(ZipAdd(other, self))

\* impl Add<&Polynomial> for &Polynomial
add_ref(self, other) ==
    IF is_zero(self) THEN Ok(truncate_leading_zeros(other))
    ELSE IF is_zero(other) THEN Ok(truncate_leading_zeros(self))
    ELSE IF degree_panics(self) \/ degree_panics(other) THEN Panicked
    ELSE IF degree(self) >= degree(other)
         THEN Ok(truncate_leading_zeros(ZipAdd(self, other)))
         ELSE Ok(truncate_leading_zeros(ZipAdd(other, self)))

\* impl Sub<&Polynomial> for &Polynomial
sub_ref(self, other) ==
    IF is_zero(self) THEN Ok(truncate_leading_zeros(NegCoeffs(other)))
    ELSE IF is_zero(other) THEN Ok(truncate_leading_zeros(self))
    ELSE IF degree_panics(self) \/ degree_panics(other) THEN Panicked
    ELSE IF degree(self) >= degree(other)
         THEN Ok(truncate_leading_zeros(ZipSub(self, other)))
         ELSE Ok(truncate_leading_zeros(ZipSub(Resize(self, Len(other)), other)))

\* impl AddAssign<&Polynomial> for Polynomial
add_assign(self, other) ==
    IF is_zero(self) THEN Ok(other)
    ELSE IF is_zero(other) THEN Ok(self)
    ELSE IF degree_panics(self) \/ degree_panics(other) THEN Panicked
    ELSE IF degree(self) >= degree(other) THEN Ok(ZipAdd(self, other))
    ELSE Ok(truncate_leading_zeros(ZipAdd(Resize(self, Len(other)), other)))

\* impl AddAssign<(Scalar, &Polynomial)> for Polynomial
add_assign_scaled(self, f, other) ==
    IF is_zero(self) THEN Ok([i \in 1..Len(other) |-> FMul(other[i], f)])
    ELSE IF is_zero(other) THEN Ok(self)
    ELSE IF degree_panics(self) \/ degree_panics(other) THEN Panicked
    ELSE IF degree(self) >= degree(other) THEN Ok(ZipAddScaled(self, f, other))
    ELSE Ok(truncate_leading_zeros(ZipAddScaled(Resize(self, Len(other)), f, other)))

\* impl SubAssign<&Polynomial> for Polynomial
sub_assign(self, other) ==
    IF is_zero(self) THEN Ok(ZipSub(Resize(self, Len(other)), other))
    ELSE IF is_zero(other) THEN Ok(self)
    ELSE IF degree_panics(self) \/ degree_panics(other) THEN Panicked
    ELSE IF degree(self) >= degree(other) THEN Ok(ZipSub(self, other))
    ELSE Ok(truncate_leading_zeros(ZipSub(Resize(self, Len(other)), other)))

\* impl Add<&Scalar> for &Polynomial
add_scalar(self, constant) ==
    IF is_zero(self) THEN Ok(from_coefficients_vec(<<constant>>))
    ELSE IF constant = 0 THEN Ok(self)
    ELSE Ok([self EXCEPT ![1] = FAdd(self[1], constant)])

\* impl Sub<&Scalar> for &Polynomial
sub_scalar(self, constant) == add_scalar(self, FNeg(constant))

\* -self: every coefficient negated
neg(self) == Ok(NegCoeffs(self))

\* &self * &constant
mul_scalar(self, constant) ==
    IF is_zero(self) \/ constant = 0 THEN Ok(<<>>)
    ELSE Ok(from_coefficients_vec([i \in 1..Len(self) |-> FMul(self[i], constant)]))

\* Ruffini's loop over the coefficients from the leading one down to index i:
\* t = coeff + k is pushed, k = z * t
RECURSIVE RuffiniLoop(_, _, _, _)
RuffiniLoop(coeffs, z, i, k) ==
    IF i = 0 THEN <<>>
    ELSE LET t == FAdd(coeffs[i], k) IN
         <<t>> \o RuffiniLoop(coeffs, z, i - 1, FMul(z, t))

Reverse(x) == [i \in 1..Len(x) |-> x[Len(x) + 1 - i]]

\* a faulty variant: ruffini that keeps the remainder term
ruffini_keeps_remainder(self, z) ==
    IF degree_panics(self) THEN Panicked
    ELSE Ok(from_coefficients_vec(Reverse(RuffiniLoop(self, z, Len(self), 0))))

\* Polynomial::ruffini: the quotient by (x - z); degree() is called first
ruffini(self, z) ==
    IF degree_panics(self) THEN Panicked
    ELSE LET quotient == RuffiniLoop(self, z, Len(self), 0)
             popped == IF quotient = <<>> THEN quotient ELSE Front(quotient)
         IN Ok(from_coefficients_vec(Reverse(popped)))

\* ------------------------------------------------------------------------
\* EvaluationDomain (fft module; contract of spec section 6 and section 3)
\* ------------------------------------------------------------------------
RECURSIVE Val2(_)
Val2(m) == IF m % 2 = 0 THEN 1 + Val2(m \div 2) ELSE 0

\* the 2-adicity of the field: the largest s with 2^s dividing P - 1
TwoAdicity == Val2(P - 1)

\* a fixed element of multiplicative order 2^TwoAdicity
RootOfUnity ==
    CHOOSE g \in 1..(P - 1) :
        /\ FPow(g, 2 ^ TwoAdicity) = 1
        /\ FPow(g, 2 ^ (TwoAdicity - 1)) # 1

\* the exponent of usize::next_power_of_two
RECURSIVE NextPow2Log(_, _)
NextPow2Log(m, k) == IF 2 ^ k >= m THEN k ELSE NextPow2Log(m, k + 1)

NoDomain == [some |-> FALSE, size |-> 0, group_gen |-> 0]

\* EvaluationDomain::new(num_coeffs): the domain of the least power of two
\* >= num_coeffs; none when that exceeds the 2-adicity of the field.
EvaluationDomain_new(num_coeffs) ==
    LET log_size == NextPow2Log(num_coeffs, 0) IN
    IF log_size > TwoAdicity THEN NoDomain
    ELSE [some |-> TRUE,
          size |-> 2 ^ log_size,
          group_gen |-> FPow(RootOfUnity, 2 ^ (TwoAdicity - log_size))]

evaluate_vanishing_polynomial(domain, tau) == FSub(FPow(tau, domain.size), 1)

\* L_i(tau) for i = 0..size-1 (entry i + 1 of the sequence).  On the domain
\* the vector is the indicator of tau; off it, the formula
\* (tau^n - 1) / (n * (tau - w^i)) * w^i.
evaluate_all_lagrange_coefficients(domain, tau) ==
    LET z_h == evaluate_vanishing_polynomial(domain, tau) IN
    [k \in 1..domain.size |->
        LET w_i == FPow(domain.group_gen, k - 1) IN
        IF z_h = 0 THEN (IF w_i = tau THEN 1 ELSE 0)
        ELSE FMul(FMul(z_h, Invert(FMul(domain.size % P, FSub(tau, w_i))).val), w_i)]

\* the input resized to the domain with zeros
PadZeros(evals, size) ==
    [k \in 1..size |-> IF k <= Len(evals) THEN evals[k] ELSE 0]

RECURSIVE IfftSum(_, _, _, _)
IfftSum(domain, evals, j, i) ==
    IF i > domain.size THEN 0
    ELSE FAdd(FMul(evals[i],
                   FPow(Invert(domain.group_gen).val, (i - 1) * (j - 1))),
              IfftSum(domain, evals, j, i + 1))

\* EvaluationDomain::ifft: evaluations over the domain -> coefficients.
\* Shorter inputs are zero-padded; a longer input is an error.
ifft(domain, evals) ==
    IF Len(evals) > domain.size THEN None
    ELSE LET padded == PadZeros(evals, domain.size)
             size_inv == Invert(domain.size % P).val
         IN Some([j \in 1..domain.size |->
                     FMul(size_inv, IfftSum(domain, padded, j, 1))])

\* ------------------------------------------------------------------------
\* Transcript (TranscriptProtocol; contract of spec section 6)
\* A transcript is its running state and the history of the operations
\* applied to it; a challenge is a deterministic function of the state.
\* ------------------------------------------------------------------------
Labels == <<"w_l", "w_r", "w_o", "beta", "gamma", "z", "alpha", "t_lo", "t_mid",
            "t_hi", "a_eval", "b_eval", "c_eval", "left_sig_eval",
            "right_sig_eval", "perm_eval", "t_eval", "r_eval", "v", "w_z",
            "w_z_w", "u">>

LabelCode(label) == CHOOSE i \in 1..Len(Labels) : Labels[i] = label

Absorb(state, kind, label, value) ==
    (state * 7 + kind * 3 + LabelCode(label) * 5 + value + 1) % 251

append_commitment(t, label, comm) ==
    [state |-> Absorb(t.state, 1, label, comm),
     log |-> Append(t.log, <<"append_commitment", label, comm>>)]

append_scalar(t, label, s) ==
    [state |-> Absorb(t.state, 2, label, s),
     log |-> Append(t.log, <<"append_scalar", label, s>>)]

\* challenge_scalar returns the challenge and advances the transcript
challenge_value(t, label) == Absorb(t.state, 3, label, 0) % P

challenge_scalar(t, label) ==
    [state |-> Absorb(t.state, 3, label, 0),
     log |-> Append(t.log, <<"challenge_scalar", label, challenge_value(t, label)>>)]

NewTranscript(seed) == [state |-> seed, log |-> <<>>]

\* ------------------------------------------------------------------------
\* Proof helpers (self is the proof)
\* ------------------------------------------------------------------------
\* a faulty variant: l1_eval weighted by alpha^2 instead of alpha^3
compute_quotient_evaluation_alpha_sq(self, pi_eval, alpha, beta, gamma, l1_eval, z_h_eval, z_hat_eval) ==
    LET ev == self.evaluations
        alpha_sq == FMul(alpha, alpha)
        a == FAdd(ev.lin_poly_eval, FMul(pi_eval, alpha))
        b_0 == FAdd(FAdd(ev.a_eval, FMul(beta, ev.left_sigma_eval)), gamma)
        b_1 == FAdd(FAdd(ev.b_eval, FMul(beta, ev.right_sigma_eval)), gamma)
        b_2 == FMul(FMul(FAdd(ev.c_eval, gamma), z_hat_eval), alpha_sq)
        b == FMul(FMul(b_0, b_1), b_2)
        c == FMul(l1_eval, alpha_sq)
        inv == Invert(z_h_eval)
    IN IF inv.some THEN Some(FMul(FSub(FSub(a, b), c), inv.val)) ELSE None

\* The quotient evaluation; none when z_h_eval has no inverse (the code
\* unwraps the inverse).
compute_quotient_evaluation(self, pi_eval, alpha, beta, gamma, l1_eval, z_h_eval, z_hat_eval) ==
    LET ev == self.evaluations
        alpha_sq == FMul(alpha, alpha)
        alpha_cu == FMul(alpha_sq, alpha)
        a == FAdd(ev.lin_poly_eval, FMul(pi_eval, alpha))
        beta_sig1 == FMul(beta, ev.left_sigma_eval)
        b_0 == FAdd(FAdd(ev.a_eval, beta_sig1), gamma)
        beta_sig2 == FMul(beta, ev.right_sigma_eval)
        b_1 == FAdd(FAdd(ev.b_eval, beta_sig2), gamma)
        b_2 == FMul(FMul(FAdd(ev.c_eval, gamma), z_hat_eval), alpha_sq)
        b == FMul(FMul(b_0, b_1), b_2)
        c == FMul(l1_eval, alpha_cu)
        inv == Invert(z_h_eval)
    IN IF inv.some THEN Some(FMul(FSub(FSub(a, b), c), inv.val)) ELSE None

\* a faulty variant: y pushed for out_sigma_comm instead of -y
compute_partial_opening_commitment_plus_y(self, alpha, beta, gamma, z_challenge, u, v, l1_eval, preprocessed_circuit) ==
    LET ev == self.evaluations
        x == LET beta_z == FMul(beta, z_challenge)
                 q_0 == FAdd(FAdd(ev.a_eval, beta_z), gamma)
                 beta_k1_z == FMul(FMul(beta, K1 % P), z_challenge)
                 q_1 == FAdd(FAdd(ev.b_eval, beta_k1_z), gamma)
                 beta_k2_z == FMul(FMul(beta, K2 % P), z_challenge)
                 q_2 == FMul(FMul(FMul(FAdd(FAdd(ev.c_eval, beta_k2_z), gamma),
                                       alpha), alpha), v)
             IN FMul(FMul(q_0, q_1), q_2)
        r == FMul(FMul(l1_eval, FPow(alpha, 3)), v)
        s == FMul(FPow(v, 7), u)
        y == LET beta_sigma_1 == FMul(beta, ev.left_sigma_eval)
                 q_0 == FAdd(FAdd(ev.a_eval, beta_sigma_1), gamma)
                 beta_sigma_2 == FMul(beta, ev.right_sigma_eval)
                 q_1 == FAdd(FAdd(ev.b_eval, beta_sigma_2), gamma)
                 q_2 == FMul(FMul(FMul(FMul(beta, ev.perm_eval), alpha), alpha), v)
             IN FMul(FMul(q_0, q_1), q_2)
        scalars == << FMul(FMul(FMul(ev.a_eval, ev.b_eval), alpha), v),
                      FMul(FMul(ev.a_eval, alpha), v),
                      FMul(FMul(ev.b_eval, alpha), v),
                      FMul(FMul(ev.c_eval, alpha), v),
                      FMul(alpha, v),
                      FAdd(FAdd(x, r), s),
                      y >>
        points == << preprocessed_circuit.qm_comm,
                     preprocessed_circuit.ql_comm,
                     preprocessed_circuit.qr_comm,
                     preprocessed_circuit.qo_comm,
                     preprocessed_circuit.qc_comm,
                     self.z_comm,
                     preprocessed_circuit.out_sigma_comm >>
    IN sum_points(multiscalar_mul(scalars, points))

compute_partial_opening_commitment(self, alpha, beta, gamma, z_challenge, u, v, l1_eval, preprocessed_circuit) ==
    LET ev == self.evaluations
        x == LET beta_z == FMul(beta, z_challenge)
                 q_0 == FAdd(FAdd(ev.a_eval, beta_z), gamma)
                 beta_k1_z == FMul(FMul(beta, K1 % P), z_challenge)
                 q_1 == FAdd(FAdd(ev.b_eval, beta_k1_z), gamma)
                 beta_k2_z == FMul(FMul(beta, K2 % P), z_challenge)
                 q_2 == FMul(FMul(FMul(FAdd(FAdd(ev.c_eval, beta_k2_z), gamma),
                                       alpha), alpha), v)
             IN FMul(FMul(q_0, q_1), q_2)
        r == FMul(FMul(l1_eval, FPow(alpha, 3)), v)
        s == FMul(FPow(v, 7), u)
        y == LET beta_sigma_1 == FMul(beta, ev.left_sigma_eval)
                 q_0 == FAdd(FAdd(ev.a_eval, beta_sigma_1), gamma)
                 beta_sigma_2 == FMul(beta, ev.right_sigma_eval)
                 q_1 == FAdd(FAdd(ev.b_eval, beta_sigma_2), gamma)
                 q_2 == FMul(FMul(FMul(FMul(beta, ev.perm_eval), alpha), alpha), v)
             IN FMul(FMul(q_0, q_1), q_2)
        scalars == << FMul(FMul(FMul(ev.a_eval, ev.b_eval), alpha), v),
                      FMul(FMul(ev.a_eval, alpha), v),
                      FMul(FMul(ev.b_eval, alpha), v),
                      FMul(FMul(ev.c_eval, alpha), v),
                      FMul(alpha, v),
                      FAdd(FAdd(x, r), s),
                      FNeg(y) >>
        points == << preprocessed_circuit.qm_comm,
                     preprocessed_circuit.ql_comm,
                     preprocessed_circuit.qr_comm,
                     preprocessed_circuit.qo_comm,
                     preprocessed_circuit.qc_comm,
                     self.z_comm,
                     preprocessed_circuit.out_sigma_comm >>
    IN sum_points(multiscalar_mul(scalars, points))

\* a faulty variant: t_hi_comm weighted by z^n instead of z^(2n)
compute_batch_opening_commitment_z_n_twice(self, z_challenge, v, d_comm, preprocessed_circuit) ==
    LET n == preprocessed_circuit.n
        z_n == FPow(z_challenge, n)
        z_two_n == FPow(z_challenge, n)
        scalars == << 1, z_n, z_two_n, 1, FPow(v, 2), FPow(v, 3), FPow(v, 4),
                      FPow(v, 5), FPow(v, 6) >>
        points == << self.t_lo_comm, self.t_mid_comm, self.t_hi_comm, d_comm,
                     self.a_comm, self.b_comm, self.c_comm,
                     preprocessed_circuit.left_sigma_comm,
                     preprocessed_circuit.right_sigma_comm >>
    IN sum_points(multiscalar_mul(scalars, points))

compute_batch_opening_commitment(self, z_challenge, v, d_comm, preprocessed_circuit) ==
    LET n == preprocessed_circuit.n
        z_n == FPow(z_challenge, n)
        z_two_n == FPow(z_challenge, 2 * n)
        scalars == << 1, z_n, z_two_n, 1, FPow(v, 2), FPow(v, 3), FPow(v, 4),
                      FPow(v, 5), FPow(v, 6) >>
        points == << self.t_lo_comm, self.t_mid_comm, self.t_hi_comm, d_comm,
                     self.a_comm, self.b_comm, self.c_comm,
                     preprocessed_circuit.left_sigma_comm,
                     preprocessed_circuit.right_sigma_comm >>
    IN sum_points(multiscalar_mul(scalars, points))

RECURSIVE SumPairs(_)
SumPairs(x) ==
    IF x = <<>> THEN 0
    ELSE FAdd(FMul(Head(x)[1], Head(x)[2]), SumPairs(Tail(x)))

\* a faulty variant: the shifted opening weighted by v^6 instead of v^7
compute_batch_evaluation_commitment_v6(self, u, v, t_eval, vk) ==
    LET ev == self.evaluations
        x == << <<1, t_eval>>,
                <<v, ev.lin_poly_eval>>,
                <<FPow(v, 2), ev.a_eval>>,
                <<FPow(v, 3), ev.b_eval>>,
                <<FPow(v, 4), ev.c_eval>>,
                <<FPow(v, 5), ev.left_sigma_eval>>,
                <<FPow(v, 6), ev.right_sigma_eval>>,
                <<FPow(v, 6), FMul(u, ev.perm_eval)>> >>
    IN G1Mul(vk.g, SumPairs(x))

compute_batch_evaluation_commitment(self, u, v, t_eval, vk) ==
    LET ev == self.evaluations
        x == << <<1, t_eval>>,
                <<v, ev.lin_poly_eval>>,
                <<FPow(v, 2), ev.a_eval>>,
                <<FPow(v, 3), ev.b_eval>>,
                <<FPow(v, 4), ev.c_eval>>,
                <<FPow(v, 5), ev.left_sigma_eval>>,
                <<FPow(v, 6), ev.right_sigma_eval>>,
                <<FPow(v, 7), FMul(u, ev.perm_eval)>> >>
    IN G1Mul(vk.g, SumPairs(x))

\* ------------------------------------------------------------------------
\* State
\* ------------------------------------------------------------------------
VARIABLES
    proof,                  \* the proof being verified (self)
    preprocessed_circuit,   \* n and the selector / permutation commitments
    verifier_key,           \* g, h, beta_h
    pub_inputs,             \* the public-input scalars
    fresh_transcript,       \* the transcript state verify is invoked with
    transcript,             \* the transcript, mutated by verify
    domain,                 \* the evaluation domain built at the start
    locals,                 \* verify's local variables
    pc,                     \* the statement verify is at
    result,                 \* verify's return value, once pc = "done"
    err,                    \* what verify panicked on, once pc = "panic"
    run,                    \* 1 in the first invocation, 2 in the repeated one
    first,                  \* outcome of the first invocation
    poly,                   \* a Polynomial the operations are applied to
    call,                   \* the last Polynomial operation and its outcome
    nops                    \* the number of in-place operations applied to poly

inputs == <<proof, preprocessed_circuit, verifier_key, pub_inputs, fresh_transcript>>
vvars == <<inputs, transcript, domain, locals, pc, result, err, run, first>>
pvars == <<poly, call, nops>>
vars == <<vvars, pvars>>

NoLocals ==
    [beta |-> 0, gamma |-> 0, alpha |-> 0, z_challenge |-> 0, z_h_eval |-> 0,
     l1_eval |-> 0, pi_eval |-> 0, t_eval |-> 0, v |-> 0, u |-> 0,
     d_comm |-> 0, f_comm |-> 0, e_comm |-> 0]

NoRun == [pc |-> "none", result |-> FALSE, err |-> "", transcript |-> NewTranscript(0)]
NoCall ==
    [op |-> "none", lhs |-> <<>>, rhs |-> <<>>, scalar |-> 0, res |-> <<>>,
     panic |-> FALSE]

\* the circuit sizes tried: 1..MaxN and one beyond the 2-adicity of the field
CircuitSizes == (1..MaxN) \cup {2 ^ TwoAdicity + 1}

\* the public-input vectors tried: <<s, 2s, 3s, ...>> of every length
PubInputVectors ==
    {[i \in 1..k |-> (s * i) % P] : k \in 0..MaxPubLen, s \in {1, 2}}

Proofs ==
    {[a_comm |-> 3, b_comm |-> 5, c_comm |-> 7, z_comm |-> 11,
      t_lo_comm |-> 2, t_mid_comm |-> 4, t_hi_comm |-> 6,
      w_z_comm |-> w, w_zw_comm |-> 9,
      evaluations |-> [a_eval |-> a, b_eval |-> 2, c_eval |-> 3,
                       left_sigma_eval |-> 4, right_sigma_eval |-> 5,
                       lin_poly_eval |-> 6, perm_eval |-> 7]] :
        w \in Scalars, a \in {1, P - 1}}

PreProcessedCircuits ==
    {[n |-> n, qm_comm |-> 2, ql_comm |-> 3, qr_comm |-> 5, qo_comm |-> 8,
      qc_comm |-> 12, left_sigma_comm |-> 10, right_sigma_comm |-> 14,
      out_sigma_comm |-> 15] : n \in CircuitSizes}

VerifierKeys == {[g |-> 1, h |-> 1, beta_h |-> 3]}

InitVerifier ==
    /\ proof \in Proofs
    /\ preprocessed_circuit \in PreProcessedCircuits
    /\ verifier_key \in VerifierKeys
    /\ pub_inputs \in PubInputVectors
    /\ fresh_transcript \in {NewTranscript(seed) : seed \in 0..MaxSeed}
    /\ transcript = fresh_transcript
    /\ domain = NoDomain
    /\ locals = NoLocals
    /\ pc = "new_domain"
    /\ result = FALSE
    /\ err = ""
    /\ run = 1
    /\ first = NoRun

\* ------------------------------------------------------------------------
\* Proof::verify, statement by statement
\* ------------------------------------------------------------------------
Goto(at, next) == pc = at /\ pc' = next

Panic(reason) == pc' = "panic" /\ err' = reason

\* transcript.append_commitment(label, comm)
AppendCommitmentAt(at, next, label, comm) ==
    /\ Goto(at, next)
    /\ transcript' = append_commitment(transcript, label, comm)
    /\ UNCHANGED <<inputs, domain, locals, result, err, run, first, pvars>>

\* transcript.append_scalar(label, s)
AppendScalarAt(at, next, label, s) ==
    /\ Goto(at, next)
    /\ transcript' = append_scalar(transcript, label, s)
    /\ UNCHANGED <<inputs, domain, locals, result, err, run, first, pvars>>

\* let name = transcript.challenge_scalar(label)
ChallengeAt(at, next, label, name) ==
    /\ Goto(at, next)
    /\ locals' = [locals EXCEPT ![name] = challenge_value(transcript, label)]
    /\ transcript' = challenge_scalar(transcript, label)
    /\ UNCHANGED <<inputs, domain, result, err, run, first, pvars>>

\* let domain = EvaluationDomain::new(preprocessed_circuit.n).unwrap();
verify_new_domain ==
    /\ pc = "new_domain"
    /\ LET d == EvaluationDomain_new(preprocessed_circuit.n) IN
       IF d.some
       THEN domain' = d /\ pc' = "append_w_l" /\ err' = err
       ELSE domain' = domain /\ Panic("InvalidCircuitSize")
    /\ UNCHANGED <<inputs, transcript, locals, result, run, first, pvars>>

verify_append_w_l == AppendCommitmentAt("append_w_l", "append_w_r", "w_l", proof.a_comm)
verify_append_w_r == AppendCommitmentAt("append_w_r", "append_w_o", "w_r", proof.b_comm)
verify_append_w_o == AppendCommitmentAt("append_w_o", "challenge_beta", "w_o", proof.c_comm)

verify_challenge_beta == ChallengeAt("challenge_beta", "append_beta", "beta", "beta")
\* a faulty variant: the re-append of beta left out
verify_append_beta_skipped ==
    /\ Goto("append_beta", "challenge_gamma")
    /\ UNCHANGED <<inputs, transcript, domain, locals, result, err, run, first, pvars>>

verify_append_beta == AppendScalarAt("append_beta", "challenge_gamma", "beta", locals.beta)
verify_challenge_gamma == ChallengeAt("challenge_gamma", "append_z", "gamma", "gamma")

verify_append_z == AppendCommitmentAt("append_z", "challenge_alpha", "z", proof.z_comm)
verify_challenge_alpha == ChallengeAt("challenge_alpha", "append_t_lo", "alpha", "alpha")

verify_append_t_lo == AppendCommitmentAt("append_t_lo", "append_t_mid", "t_lo", proof.t_lo_comm)
verify_append_t_mid == AppendCommitmentAt("append_t_mid", "append_t_hi", "t_mid", proof.t_mid_comm)
verify_append_t_hi == AppendCommitmentAt("append_t_hi", "challenge_z", "t_hi", proof.t_hi_comm)
verify_challenge_z == ChallengeAt("challenge_z", "domain_evals", "z", "z_challenge")

\* z_h_eval and l1_eval
verify_domain_evals ==
    /\ Goto("domain_evals", "pi_eval")
    /\ locals' = [locals EXCEPT
          !.z_h_eval = evaluate_vanishing_polynomial(domain, locals.z_challenge),
          !.l1_eval = evaluate_all_lagrange_coefficients(domain, locals.z_challenge)[1]]
    /\ UNCHANGED <<inputs, transcript, domain, result, err, run, first, pvars>>

\* pi_poly = from_coefficients_vec(domain.ifft(&pub_inputs)); pi_eval
verify_pi_eval ==
    /\ pc = "pi_eval"
    /\ LET coeffs == ifft(domain, pub_inputs) IN
       IF coeffs.some
       THEN /\ locals' = [locals EXCEPT !.pi_eval =
                    evaluate(from_coefficients_vec(coeffs.val), locals.z_challenge)]
            /\ pc' = "quotient_eval"
            /\ err' = err
       ELSE /\ locals' = locals
            /\ Panic("PublicInputTooLong")
    /\ UNCHANGED <<inputs, transcript, domain, result, run, first, pvars>>

\* t_eval = self.compute_quotient_evaluation(...)
verify_quotient_eval ==
    /\ pc = "quotient_eval"
    /\ LET t == compute_quotient_evaluation(proof, locals.pi_eval, locals.alpha,
                    locals.beta, locals.gamma, locals.l1_eval, locals.z_h_eval,
                    proof.evaluations.perm_eval) IN
       IF t.some
       THEN /\ locals' = [locals EXCEPT !.t_eval = t.val]
            /\ pc' = "append_a_eval"
            /\ err' = err
       ELSE /\ locals' = locals
            /\ Panic("ZeroDivision")
    /\ UNCHANGED <<inputs, transcript, domain, result, run, first, pvars>>

verify_append_a_eval == AppendScalarAt("append_a_eval", "append_b_eval", "a_eval", proof.evaluations.a_eval)
verify_append_b_eval == AppendScalarAt("append_b_eval", "append_c_eval", "b_eval", proof.evaluations.b_eval)
verify_append_c_eval == AppendScalarAt("append_c_eval", "append_left_sig_eval", "c_eval", proof.evaluations.c_eval)
verify_append_left_sig_eval == AppendScalarAt("append_left_sig_eval", "append_right_sig_eval", "left_sig_eval", proof.evaluations.left_sigma_eval)
verify_append_right_sig_eval == AppendScalarAt("append_right_sig_eval", "append_perm_eval", "right_sig_eval", proof.evaluations.right_sigma_eval)
verify_append_perm_eval == AppendScalarAt("append_perm_eval", "append_t_eval", "perm_eval", proof.evaluations.perm_eval)
verify_append_t_eval == AppendScalarAt("append_t_eval", "append_r_eval", "t_eval", locals.t_eval)
verify_append_r_eval == AppendScalarAt("append_r_eval", "challenge_v", "r_eval", proof.evaluations.lin_poly_eval)

verify_challenge_v == ChallengeAt("challenge_v", "append_w_z", "v", "v")
verify_append_w_z == AppendCommitmentAt("append_w_z", "append_w_z_w", "w_z", proof.w_z_comm)
verify_append_w_z_w == AppendCommitmentAt("append_w_z_w", "challenge_u", "w_z_w", proof.w_zw_comm)
\* a faulty variant: u taken from a random source instead of the transcript
verify_challenge_u_rng ==
    /\ Goto("challenge_u", "commitments")
    /\ \E c \in Scalars : locals' = [locals EXCEPT !.u = c]
    /\ transcript' = challenge_scalar(transcript, "u")
    /\ UNCHANGED <<inputs, domain, result, err, run, first, pvars>>

verify_challenge_u == ChallengeAt("challenge_u", "commitments", "u", "u")

\* d_comm, f_comm, e_comm
verify_commitments ==
    /\ Goto("commitments", "pairing_check")
    /\ LET d_comm == compute_partial_opening_commitment(proof, locals.alpha,
                        locals.beta, locals.gamma, locals.z_challenge, locals.u,
                        locals.v, locals.l1_eval, preprocessed_circuit)
           f_comm == compute_batch_opening_commitment(proof, locals.z_challenge,
                        locals.v, d_comm, preprocessed_circuit)
           e_comm == compute_batch_evaluation_commitment(proof, locals.u,
                        locals.v, locals.t_eval, verifier_key)
       IN locals' = [locals EXCEPT !.d_comm = d_comm, !.f_comm = f_comm,
                                   !.e_comm = e_comm]
    /\ UNCHANGED <<inputs, transcript, domain, result, err, run, first, pvars>>

\* a faulty variant: the batch-evaluation commitment added, not subtracted
verify_pairing_check_plus_e ==
    /\ Goto("pairing_check", "done")
    /\ LET lhs == pairing(G1Add(proof.w_z_comm, G1Mul(proof.w_zw_comm, locals.u)),
                          verifier_key.beta_h)
           inner == LET k_0 == G1Mul(proof.w_z_comm, locals.z_challenge)
                        u_z_root == FMul(FMul(locals.u, locals.z_challenge),
                                         domain.group_gen)
                        k_1 == G1Mul(proof.w_zw_comm, u_z_root)
                    IN G1Add(G1Add(G1Add(k_0, k_1), locals.f_comm), locals.e_comm)
           rhs == pairing(inner, verifier_key.h)
       IN result' = (lhs = rhs)
    /\ UNCHANGED <<inputs, transcript, domain, locals, err, run, first, pvars>>

\* lhs == rhs
verify_pairing_check ==
    /\ Goto("pairing_check", "done")
    /\ LET lhs == pairing(G1Add(proof.w_z_comm, G1Mul(proof.w_zw_comm, locals.u)),
                          verifier_key.beta_h)
           inner == LET k_0 == G1Mul(proof.w_z_comm, locals.z_challenge)
                        u_z_root == FMul(FMul(locals.u, locals.z_challenge),
                                         domain.group_gen)
                        k_1 == G1Mul(proof.w_zw_comm, u_z_root)
                    IN G1Sub(G1Add(G1Add(k_0, k_1), locals.f_comm), locals.e_comm)
           rhs == pairing(inner, verifier_key.h)
       IN result' = (lhs = rhs)
    /\ UNCHANGED <<inputs, transcript, domain, locals, err, run, first, pvars>>

\* verify is invoked a second time with identical inputs and an identical
\* initial transcript, once the first invocation has returned or panicked.
Reinvoke ==
    /\ pc \in {"done", "panic"}
    /\ run = 1
    /\ first' = [pc |-> pc, result |-> result, err |-> err, transcript |-> transcript]
    /\ run' = 2
    /\ transcript' = fresh_transcript
    /\ domain' = NoDomain
    /\ locals' = NoLocals
    /\ pc' = "new_domain"
    /\ result' = FALSE
    /\ err' = ""
    /\ UNCHANGED <<inputs, pvars>>

Verify ==
    \/ verify_new_domain
    \/ verify_append_w_l \/ verify_append_w_r \/ verify_append_w_o
    \/ verify_challenge_beta \/ verify_append_beta \/ verify_challenge_gamma
    \/ verify_append_z \/ verify_challenge_alpha
    \/ verify_append_t_lo \/ verify_append_t_mid \/ verify_append_t_hi
    \/ verify_challenge_z
    \/ verify_domain_evals \/ verify_pi_eval \/ verify_quotient_eval
    \/ verify_append_a_eval \/ verify_append_b_eval \/ verify_append_c_eval
    \/ verify_append_left_sig_eval \/ verify_append_right_sig_eval
    \/ verify_append_perm_eval \/ verify_append_t_eval \/ verify_append_r_eval
    \/ verify_challenge_v \/ verify_append_w_z \/ verify_append_w_z_w
    \/ verify_challenge_u
    \/ verify_commitments \/ verify_pairing_check

Init == InitVerifier /\ poly = <<>> /\ call = NoCall /\ nops = 0

Next == Verify \/ Reinvoke

Spec == Init /\ [][Next]_vars

\* ------------------------------------------------------------------------
\* Properties of Proof::verify
\* ------------------------------------------------------------------------
Returned == pc = "done"
Aborted == pc = "panic"

\* The transcript operations of one run of verify, in order, with the values
\* the run has computed so far.
ExpectedOps ==
    LET ev == proof.evaluations IN
    << <<"append_commitment", "w_l", proof.a_comm>>,
       <<"append_commitment", "w_r", proof.b_comm>>,
       <<"append_commitment", "w_o", proof.c_comm>>,
       <<"challenge_scalar", "beta", locals.beta>>,
       <<"append_scalar", "beta", locals.beta>>,
       <<"challenge_scalar", "gamma", locals.gamma>>,
       <<"append_commitment", "z", proof.z_comm>>,
       <<"challenge_scalar", "alpha", locals.alpha>>,
       <<"append_commitment", "t_lo", proof.t_lo_comm>>,
       <<"append_commitment", "t_mid", proof.t_mid_comm>>,
       <<"append_commitment", "t_hi", proof.t_hi_comm>>,
       <<"challenge_scalar", "z", locals.z_challenge>>,
       <<"append_scalar", "a_eval", ev.a_eval>>,
       <<"append_scalar", "b_eval", ev.b_eval>>,
       <<"append_scalar", "c_eval", ev.c_eval>>,
       <<"append_scalar", "left_sig_eval", ev.left_sigma_eval>>,
       <<"append_scalar", "right_sig_eval", ev.right_sigma_eval>>,
       <<"append_scalar", "perm_eval", ev.perm_eval>>,
       <<"append_scalar", "t_eval", locals.t_eval>>,
       <<"append_scalar", "r_eval", ev.lin_poly_eval>>,
       <<"challenge_scalar", "v", locals.v>>,
       <<"append_commitment", "w_z", proof.w_z_comm>>,
       <<"append_commitment", "w_z_w", proof.w_zw_comm>>,
       <<"challenge_scalar", "u", locals.u>> >>

\* C1: at every point of every run of verify the operations applied to the
\* transcript so far are an initial part of the fixed sequence (w_l, w_r, w_o,
\* draw beta, append beta, draw gamma, z, draw alpha, t_lo, t_mid, t_hi, draw z,
\* the eight evaluations, draw v, w_z, w_z_w, draw u), with the listed labels
\* and values, and a run that returns has applied the whole sequence: no
\* operation is reordered, dropped or added, and every challenge comes after
\* all the appends listed before it.
C1_TranscriptSequence ==
    LET log == transcript.log IN
    /\ Len(log) <= Len(ExpectedOps)
    /\ \A i \in 1..Len(log) : log[i] = ExpectedOps[i]
    /\ Returned => Len(log) = Len(ExpectedOps)

C1_Witness ==
    /\ Returned
    /\ run = 1
    /\ Len(transcript.log) = 24
    /\ transcript.log[5] = <<"append_scalar", "beta", locals.beta>>

\* C2: when z_h_eval is zero, verify does not abort: it returns false.
C2_ZeroDivisionReturnsFalse ==
    /\ ~(Aborted /\ err = "ZeroDivision")
    /\ (Returned /\ locals.z_h_eval = 0) => result = FALSE

IsPowerOfTwo(m) == \E k \in 0..m : 2 ^ k = m

\* C3: whenever verify gets to the pairing check, the domain it built has
\* size exactly preprocessed_circuit.n and n is a power of two: for any other
\* n the construction of the domain has failed and no pairing is evaluated.
C3_DomainSizeIsN ==
    pc \in {"pairing_check", "done"} =>
        /\ IsPowerOfTwo(preprocessed_circuit.n)
        /\ domain.size = preprocessed_circuit.n

PastPiEval ==
    pc \notin {"new_domain", "append_w_l", "append_w_r", "append_w_o",
               "challenge_beta", "append_beta", "challenge_gamma", "append_z",
               "challenge_alpha", "append_t_lo", "append_t_mid", "append_t_hi",
               "challenge_z", "domain_evals", "pi_eval", "panic"}

\* C4: a public-input vector with more than n scalars is an error: verify
\* never computes pi_eval from it; a shorter one is interpolated as if padded
\* with zeros to length n.
C4_PublicInputLength ==
    PastPiEval =>
        /\ Len(pub_inputs) <= preprocessed_circuit.n
        /\ locals.pi_eval =
              evaluate(from_coefficients_vec(
                  ifft(domain, PadZeros(pub_inputs, preprocessed_circuit.n)).val),
                  locals.z_challenge)

\* C5: a run of verify that returns, returns true exactly when
\* e(w_z + u*w_zw, beta_h) = e(z*w_z + (u*z*omega)*w_zw + F - E, h).
C5_PairingEquation ==
    Returned =>
        LET w_z == proof.w_z_comm
            w_zw == proof.w_zw_comm
            u == locals.u
            z == locals.z_challenge
            omega == domain.group_gen
            F == locals.f_comm
            E == locals.e_comm
            left == ((w_z + u * w_zw) * verifier_key.beta_h) % P
            right == ((z * w_z + (u * z * omega) * w_zw + F + (P - E))
                        * verifier_key.h) % P
        IN result = (left = right)

C5_Witness == Returned /\ result = TRUE /\ run = 1

MaxLen == 3
MaxSeqLen == 2
MaxOps == 2

Canonical(coeffs) == coeffs = <<>> \/ Last(coeffs) # 0

PolysOver(coeffSet, maxLen) ==
    {c \in UNION {[1..k -> coeffSet] : k \in 0..maxLen} : Canonical(c)}

\* the canonical polynomials the operations are applied to
InputPolys == PolysOver({0, 1, 4, P - 1}, MaxLen)

\* the canonical polynomials sequences of in-place operations start from and
\* take as operands
SeqPolys == PolysOver({0, 1, P - 1}, MaxSeqLen)

MakeCall(op, lhs, rhs, scalar, out) ==
    [op |-> op, lhs |-> lhs, rhs |-> rhs, scalar |-> scalar,
     res |-> out.coeffs, panic |-> out.panic]

\* the verifier does not run while polynomial operations are exercised
IdleVerifier ==
    /\ proof = CHOOSE x \in Proofs : x.w_z_comm = 0 /\ x.evaluations.a_eval = 1
    /\ preprocessed_circuit = CHOOSE x \in PreProcessedCircuits : x.n = 1
    /\ verifier_key = CHOOSE x \in VerifierKeys : TRUE
    /\ pub_inputs = <<>>
    /\ fresh_transcript = NewTranscript(0)
    /\ transcript = fresh_transcript
    /\ domain = NoDomain
    /\ locals = NoLocals
    /\ pc = "idle"
    /\ result = FALSE
    /\ err = ""
    /\ run = 1
    /\ first = NoRun

\* let res = &poly + &other
RefAdd ==
    /\ call.op = "none"
    /\ \E other \in InputPolys :
          call' = MakeCall("add", poly, other, 0, add_ref(poly, other))
    /\ UNCHANGED <<vvars, poly, nops>>

\* let res = &poly - &other
RefSub ==
    /\ call.op = "none"
    /\ \E other \in InputPolys :
          call' = MakeCall("sub", poly, other, 0, sub_ref(poly, other))
    /\ UNCHANGED <<vvars, poly, nops>>

\* let res = &poly + &constant
RefAddScalar ==
    /\ call.op = "none"
    /\ \E constant \in Scalars :
          call' = MakeCall("add_scalar", poly, <<>>, constant, add_scalar(poly, constant))
    /\ UNCHANGED <<vvars, poly, nops>>

\* let res = &poly - &constant
RefSubScalar ==
    /\ call.op = "none"
    /\ \E constant \in Scalars :
          call' = MakeCall("sub_scalar", poly, <<>>, constant, sub_scalar(poly, constant))
    /\ UNCHANGED <<vvars, poly, nops>>

\* let res = poly.ruffini(z)
Ruffini ==
    /\ call.op = "none"
    /\ \E z \in Scalars :
          call' = MakeCall("ruffini", poly, <<>>, z, ruffini(poly, z))
    /\ UNCHANGED <<vvars, poly, nops>>

InitPolyOps ==
    /\ IdleVerifier
    /\ poly \in InputPolys
    /\ call = NoCall
    /\ nops = 0

NextPolyOps == RefAdd \/ RefSub \/ RefAddScalar \/ RefSubScalar \/ Ruffini

SpecPolyOps == InitPolyOps /\ [][NextPolyOps]_vars

\* An in-place operation replaces poly by its outcome; a panic leaves it.
InPlace(op, other, scalar, out) ==
    /\ ~call.panic
    /\ nops < MaxOps
    /\ nops' = nops + 1
    /\ call' = MakeCall(op, poly, other, scalar, out)
    /\ poly' = IF out.panic THEN poly ELSE out.coeffs
    /\ UNCHANGED vvars

\* poly += &other
AddAssign == \E other \in SeqPolys : InPlace("add_assign", other, 0, add_assign(poly, other))

\* poly += (f, &other)
AddAssignScaled ==
    \E other \in SeqPolys, f \in {0, 1, P - 1} :
        InPlace("add_assign_scaled", other, f, add_assign_scaled(poly, f, other))

\* poly -= &other
SubAssign == \E other \in SeqPolys : InPlace("sub_assign", other, 0, sub_assign(poly, other))

InitPolySeq ==
    /\ IdleVerifier
    /\ poly \in SeqPolys
    /\ call = [NoCall EXCEPT !.op = "start"]
    /\ nops = 0

NextPolySeq == AddAssign \/ AddAssignScaled \/ SubAssign

SpecPolySeq == InitPolySeq /\ [][NextPolySeq]_vars

\* Any sequence of the public operations, each outcome bound to poly again.
SeqScalars == {0, 1, P - 1}

\* poly = &poly + &other
ThenAdd == \E other \in SeqPolys : InPlace("add", other, 0, add_ref(poly, other))

\* poly = &poly - &other
ThenSub == \E other \in SeqPolys : InPlace("sub", other, 0, sub_ref(poly, other))

\* poly = -poly
ThenNeg == InPlace("neg", <<>>, 0, neg(poly))

\* poly = &poly * &constant
ThenMulScalar ==
    \E constant \in SeqScalars : InPlace("mul_scalar", <<>>, constant, mul_scalar(poly, constant))

\* poly = &poly + &constant
ThenAddScalar ==
    \E constant \in SeqScalars : InPlace("add_scalar", <<>>, constant, add_scalar(poly, constant))

\* poly = &poly - &constant
ThenSubScalar ==
    \E constant \in SeqScalars : InPlace("sub_scalar", <<>>, constant, sub_scalar(poly, constant))

\* poly = poly.ruffini(z)
ThenRuffini == \E z \in SeqScalars : InPlace("ruffini", <<>>, z, ruffini(poly, z))

\* poly.degree()
ThenDegree ==
    InPlace("degree", <<>>, 0, IF degree_panics(poly) THEN Panicked ELSE Ok(poly))

NextPolyAny ==
    \/ AddAssign \/ AddAssignScaled \/ SubAssign
    \/ ThenAdd \/ ThenSub \/ ThenNeg \/ ThenMulScalar
    \/ ThenAddScalar \/ ThenSubScalar \/ ThenRuffini \/ ThenDegree

SpecPolyAny == InitPolySeq /\ [][NextPolyAny]_vars

\* ------------------------------------------------------------------------
\* Properties of the Polynomial operations
\* ------------------------------------------------------------------------
\* the coefficient of x^(i - 1), zero beyond the stored coefficients
Coef(coeffs, i) == IF 1 <= i /\ i <= Len(coeffs) THEN coeffs[i] ELSE 0

Longest(x, y) == IF Len(x) >= Len(y) THEN Len(x) ELSE Len(y)

\* C7: for canonical p and q, &p + &q and &p - &q are the coefficient-wise
\* sum and difference (the shorter operand extended by zeros) in canonical
\* form, also when leading coefficients cancel, and p is left unchanged.
C7_RefAddSub ==
    (call.op \in {"add", "sub"} /\ Canonical(call.lhs) /\ Canonical(call.rhs)) =>
        /\ ~call.panic
        /\ Canonical(call.res)
        /\ \A i \in 1..(Longest(call.lhs, call.rhs) + 1) :
              Coef(call.res, i) =
                 IF call.op = "add"
                 THEN (Coef(call.lhs, i) + Coef(call.rhs, i)) % P
                 ELSE (Coef(call.lhs, i) + P - Coef(call.rhs, i)) % P
        /\ poly = call.lhs

C7_Witness ==
    /\ call.op = "add"
    /\ Len(call.lhs) = 3
    /\ Len(call.rhs) = 3
    /\ ~call.panic
    /\ Len(call.res) = 1

\* C8: after any sequence of p += &q, p += (f, &q) and p -= &q on canonical
\* polynomials, p is empty or ends in a nonzero coefficient.
C8_InPlaceCanonical ==
    call.op \in {"start", "add_assign", "add_assign_scaled", "sub_assign"} =>
        Canonical(poly)

\* C9: for canonical p and any scalar s, &p + &s and &p - &s have the
\* constant coefficient c_0 + s (c_0 - s), the other coefficients of p, and
\* are canonical.
C9_ScalarAddSub ==
    (call.op \in {"add_scalar", "sub_scalar"} /\ Canonical(call.lhs)) =>
        /\ ~call.panic
        /\ Canonical(call.res)
        /\ Coef(call.res, 1) =
              IF call.op = "add_scalar"
              THEN (Coef(call.lhs, 1) + call.scalar) % P
              ELSE (Coef(call.lhs, 1) + P - call.scalar) % P
        /\ \A i \in 2..(Len(call.lhs) + 1) : Coef(call.res, i) = Coef(call.lhs, i)

\* C10: for canonical p and any z, q = p.ruffini(z) satisfies
\* q * (x - z) + p(z) = p coefficient by coefficient (so ruffini(0, z) = 0),
\* and (x^2 + 4x + 4).ruffini(-2) = x + 2, (x^2 + x).ruffini(0) = x + 1.
C10_RuffiniIdentity ==
    (call.op = "ruffini" /\ Canonical(call.lhs)) =>
        LET p == call.lhs
            q == call.res
            z == call.scalar
            \* the coefficient of x^(i - 1) in q * (x - z)
            QTimes(i) == (Coef(q, i - 1) + (P - z) * Coef(q, i)) % P
            Rem(i) == IF i = 1 THEN evaluate(p, z) ELSE 0
        IN /\ ~call.panic
           /\ Canonical(q)
           /\ \A i \in 1..(Len(p) + 1) : (QTimes(i) + Rem(i)) % P = Coef(p, i)
           /\ p = <<>> => q = <<>>
           /\ (p = <<4, 4, 1>> /\ z = P - 2) => q = <<2, 1>>
           /\ (p = <<0, 1, 1>> /\ z = 0) => q = <<1, 1>>

C10_Witness ==
    /\ call.op = "ruffini"
    /\ call.lhs = <<4, 4, 1>>
    /\ call.scalar = P - 2
    /\ call.res = <<2, 1>>

\* ------------------------------------------------------------------------
\* The proof helpers applied to argument values
\* ------------------------------------------------------------------------
\* the scalars the helpers' arguments are drawn from
ArgScalars == {0, 1, 2, P - 1}

\* the proof and the circuit the helpers are called on
InitProofOps ==
    /\ proof \in {x \in Proofs : x.w_z_comm = 0}
    /\ preprocessed_circuit \in PreProcessedCircuits
    /\ verifier_key \in {[vk EXCEPT !.g = g] : vk \in VerifierKeys, g \in {1, 3}}
    /\ pub_inputs = <<>>
    /\ fresh_transcript = NewTranscript(0)
    /\ transcript = fresh_transcript
    /\ domain = NoDomain
    /\ locals = NoLocals
    /\ pc = "idle"
    /\ result = FALSE
    /\ err = ""
    /\ run = 1
    /\ first = NoRun
    /\ poly = <<>>
    /\ call = NoCall
    /\ nops = 0

\* let t_eval = self.compute_quotient_evaluation(pi_eval, alpha, beta, gamma,
\*     l1_eval, z_h_eval, self.evaluations.perm_eval)
QuotientEvaluation ==
    /\ pc = "idle"
    /\ \E pi_eval, alpha, beta, gamma, l1_eval, z_h_eval \in ArgScalars :
          LET t == compute_quotient_evaluation(proof, pi_eval, alpha, beta, gamma,
                       l1_eval, z_h_eval, proof.evaluations.perm_eval)
          IN /\ locals' = [NoLocals EXCEPT !.pi_eval = pi_eval, !.alpha = alpha,
                              !.beta = beta, !.gamma = gamma, !.l1_eval = l1_eval,
                              !.z_h_eval = z_h_eval,
                              !.t_eval = IF t.some THEN t.val ELSE 0]
             /\ pc' = IF t.some THEN "compute_quotient_evaluation" ELSE "panic"
             /\ err' = IF t.some THEN "" ELSE "ZeroDivision"
    /\ UNCHANGED <<inputs, transcript, domain, result, run, first, pvars>>

\* let d_comm = self.compute_partial_opening_commitment(alpha, beta, gamma,
\*     z_challenge, u, v, l1_eval, preprocessed_circuit)
PartialOpening ==
    /\ Goto("idle", "compute_partial_opening_commitment")
    /\ \E alpha, beta, gamma, z_challenge, u, v, l1_eval \in ArgScalars :
          locals' = [NoLocals EXCEPT !.alpha = alpha, !.beta = beta,
                        !.gamma = gamma, !.z_challenge = z_challenge, !.u = u,
                        !.v = v, !.l1_eval = l1_eval,
                        !.d_comm = compute_partial_opening_commitment(proof, alpha,
                                       beta, gamma, z_challenge, u, v, l1_eval,
                                       preprocessed_circuit)]
    /\ UNCHANGED <<inputs, transcript, domain, result, err, run, first, pvars>>

\* let f_comm = self.compute_batch_opening_commitment(z_challenge, v, d_comm,
\*     preprocessed_circuit)
BatchOpening ==
    /\ Goto("idle", "compute_batch_opening_commitment")
    /\ \E z_challenge, v, d_comm \in ArgScalars :
          locals' = [NoLocals EXCEPT !.z_challenge = z_challenge, !.v = v,
                        !.d_comm = d_comm,
                        !.f_comm = compute_batch_opening_commitment(proof,
                                       z_challenge, v, d_comm, preprocessed_circuit)]
    /\ UNCHANGED <<inputs, transcript, domain, result, err, run, first, pvars>>

\* let e_comm = self.compute_batch_evaluation_commitment(u, v, t_eval, vk)
BatchEvaluation ==
    /\ Goto("idle", "compute_batch_evaluation_commitment")
    /\ \E u, v, t_eval \in ArgScalars :
          locals' = [NoLocals EXCEPT !.u = u, !.v = v, !.t_eval = t_eval,
                        !.e_comm = compute_batch_evaluation_commitment(proof, u, v,
                                       t_eval, verifier_key)]
    /\ UNCHANGED <<inputs, transcript, domain, result, err, run, first, pvars>>

NextProofOps ==
    QuotientEvaluation \/ PartialOpening \/ BatchOpening \/ BatchEvaluation

SpecProofOps == InitProofOps /\ [][NextProofOps]_vars

\* ------------------------------------------------------------------------
\* Properties of the proof helpers
\* ------------------------------------------------------------------------
\* C11: for all argument values with z_h_eval nonzero the quotient evaluation
\* returns t_eval = (a - b - c) * z_h_eval^-1 with a = lin_poly_eval +
\* alpha * pi_eval, b = (a_eval + beta * left_sigma_eval + gamma) * (b_eval +
\* beta * right_sigma_eval + gamma) * ((c_eval + gamma) * perm_eval * alpha^2)
\* and c = l1_eval * alpha^3; t_eval is stated as the scalar whose product
\* with z_h_eval is a - b - c.
C11_QuotientEvaluation ==
    LET ev == proof.evaluations
        l == locals
        a == ev.lin_poly_eval + l.alpha * l.pi_eval
        b == (ev.a_eval + l.beta * ev.left_sigma_eval + l.gamma)
               * (ev.b_eval + l.beta * ev.right_sigma_eval + l.gamma)
               * ((ev.c_eval + l.gamma) * ev.perm_eval * l.alpha * l.alpha)
        c == l.l1_eval * l.alpha * l.alpha * l.alpha
    IN /\ (pc = "panic" /\ err = "ZeroDivision") => l.z_h_eval = 0
       /\ pc = "compute_quotient_evaluation" =>
             /\ l.z_h_eval # 0
             /\ l.t_eval \in Scalars
             /\ (l.t_eval * l.z_h_eval + b + c) % P = a % P

C11_Witness ==
    /\ pc = "compute_quotient_evaluation"
    /\ locals.z_h_eval = 2
    /\ locals.alpha = P - 1
    /\ locals.beta = 2
    /\ locals.l1_eval = 1
    /\ locals.t_eval # 0

RECURSIVE PowModP(_, _)
PowModP(x, e) == IF e = 0 THEN 1 ELSE (x * PowModP(x, e - 1)) % P

\* C13: the batch-opening commitment F is the sum of the nine products
\* t_lo * 1, t_mid * z^n, t_hi * z^(2n), D * 1, a_comm * v^2, b_comm * v^3,
\* c_comm * v^4, sigma_L * v^5 and sigma_R * v^6, n the circuit size.
C13_BatchOpening ==
    pc = "compute_batch_opening_commitment" =>
        LET pp == preprocessed_circuit
            l == locals
            z == l.z_challenge
        IN locals.f_comm =
              ( proof.t_lo_comm * 1
              + proof.t_mid_comm * PowModP(z, pp.n)
              + proof.t_hi_comm * PowModP(z, 2 * pp.n)
              + l.d_comm * 1
              + proof.a_comm * PowModP(l.v, 2)
              + proof.b_comm * PowModP(l.v, 3)
              + proof.c_comm * PowModP(l.v, 4)
              + pp.left_sigma_comm * PowModP(l.v, 5)
              + pp.right_sigma_comm * PowModP(l.v, 6) ) % P

C13_Witness ==
    /\ pc = "compute_batch_opening_commitment"
    /\ preprocessed_circuit.n = 3
    /\ locals.z_challenge = 2
    /\ locals.v = 2
    /\ locals.d_comm = P - 1
    /\ locals.f_comm # 0

\* C14: the batch-evaluation commitment is E = g * (t_eval + v * lin_poly_eval
\* + v^2 * a_eval + v^3 * b_eval + v^4 * c_eval + v^5 * left_sigma_eval
\* + v^6 * right_sigma_eval + v^7 * u * perm_eval), and each opened evaluation
\* carries in E the weight its commitment carries in F and D: raising a_comm,
\* b_comm, c_comm, sigma_L or sigma_R by one point moves F by the weight that
\* raising the matching evaluation by one moves E / g, and u moves D by
\* z_comm times the weight of perm_eval in E / g.
C14_BatchEvaluation ==
    pc = "compute_batch_evaluation_commitment" =>
        LET ev == proof.evaluations
            pp == preprocessed_circuit
            l == locals
            g == verifier_key.g
            E(prf) == compute_batch_evaluation_commitment(prf, l.u, l.v, l.t_eval, verifier_key)
            F(prf, circuit) == compute_batch_opening_commitment(prf, 2, l.v, 1, circuit)
            D(u) == compute_partial_opening_commitment(proof, 2, 1, 1, 2, u, l.v, 1, pp)
            \* what one more unit of the evaluation adds to E
            InE(field) == (E([proof EXCEPT !.evaluations[field] = (@ + 1) % P])
                             + P - E(proof)) % P
            \* what one more point of the commitment adds to F
            InF(field) == (F([proof EXCEPT ![field] = (@ + 1) % P], pp)
                             + P - F(proof, pp)) % P
            InFSigma(field) == (F(proof, [pp EXCEPT ![field] = (@ + 1) % P])
                                  + P - F(proof, pp)) % P
        IN /\ l.e_comm =
                (g * (( l.t_eval
                      + l.v * ev.lin_poly_eval
                      + PowModP(l.v, 2) * ev.a_eval
                      + PowModP(l.v, 3) * ev.b_eval
                      + PowModP(l.v, 4) * ev.c_eval
                      + PowModP(l.v, 5) * ev.left_sigma_eval
                      + PowModP(l.v, 6) * ev.right_sigma_eval
                      + PowModP(l.v, 7) * l.u * ev.perm_eval ) % P)) % P
           /\ InE("a_eval") = (g * InF("a_comm")) % P
           /\ InE("b_eval") = (g * InF("b_comm")) % P
           /\ InE("c_eval") = (g * InF("c_comm")) % P
           /\ InE("left_sigma_eval") = (g * InFSigma("left_sigma_comm")) % P
           /\ InE("right_sigma_eval") = (g * InFSigma("right_sigma_comm")) % P
           /\ (g * ((D(l.u) + P - D(0)) % P)) % P = (proof.z_comm * InE("perm_eval")) % P

C14_Witness ==
    /\ pc = "compute_batch_evaluation_commitment"
    /\ verifier_key.g = 3
    /\ locals.u = 2
    /\ locals.v = 2
    /\ locals.t_eval = P - 1
    /\ locals.e_comm # 0

\* C15: the assertion inside Polynomial::degree never fails on a polynomial
\* reached from canonical polynomials by any sequence of the public operations
\* (by-reference add/sub, in-place add/sub, scaled in-place add, neg, scalar
\* mul, scalar add/sub, ruffini): no operation of such a sequence aborts.
C15_DegreeNeverPanics == ~call.panic

\* C16: in every run of verify that computes the batch-opening commitment
\* the same n is used throughout: the domain built from preprocessed_circuit.n
\* has size n, and z_h_eval = z_n - 1 for z_n = z_challenge^n, the scalar the
\* batch-opening commitment weights t_mid_comm with.
C16_SameNThroughout ==
    pc \in {"pairing_check", "done"} =>
        LET n == preprocessed_circuit.n
            z_n == PowModP(locals.z_challenge, n)
        IN /\ domain.size = n
           /\ locals.z_h_eval = (z_n + P - 1) % P

====
